---- MODULE Spec2Model ----
(***************************************************************************)
(* A model of XML2JSON (src/unnamed/part_001, src/src/index.js): the three *)
(* entry points, the SAX-event handlers that build the tree inside         *)
(* XML2JSON.parse, and the two node accessors.                             *)
(*                                                                         *)
(* JavaScript objects are modelled as functions from own property names to *)
(* tagged values; the nodes created by onopentag live in a heap (nodes)    *)
(* and are referred to by their index, because the handlers mutate them    *)
(* through references kept on elementsStack.                               *)
(***************************************************************************)
EXTENDS Integers, Sequences, FiniteSets, TLC

\* ------------------------------------------------------------------ bounds
\* The size of a run: the OpenTag, Text, CDataStart, CDataChunk and Error events
\* of the document, plus one for every start tag that carries attributes, plus
\* two for every accessor call made on the delivered tree, plus one for the
\* read or the request of parseFromFile and parseFromUrl.
MaxSize == 5

\* ------------------------------------------------------------ input domains
\* Tag names as the lexical source reports them (lower-cased).
Tags == {"a", "b", "name"}
\* Text contents.
Texts == {"keep", "drop"}
\* CDATA chunk contents.
Chunks == {"keep", "k"}
\* Attribute names a caller asks for.
Keys == {"x", "text", "constructor"}
\* The entry points.
Entries == {"parse", "parseFromFile", "parseFromUrl"}
\* HTTP status codes of a response.
StatusCodes == {200, 204, 404}

\* ------------------------------------------------------------ JS values
Str(s) == [t |-> "string", v |-> s]
Ref(i) == [t |-> "node", v |-> i]
Arr(q) == [t |-> "array", v |-> q]
Obj(f) == [t |-> "object", v |-> f]
Fun(k) == [t |-> "function", v |-> k]
Undefined == [t |-> "undefined", v |-> ""]
Null == [t |-> "null", v |-> ""]
\* The reference to jsonObj, as callback receives it.
Root == [t |-> "root", v |-> 0]
TypeError == [t |-> "throw", v |-> "TypeError"]

\* An object with no own property: {}.
EmptyObject == [k \in {} |-> Undefined]

\* Property names every plain object inherits from Object.prototype.
ObjectPrototype == {"constructor", "hasOwnProperty", "isPrototypeOf",
                    "propertyIsEnumerable", "toLocaleString", "toString", "valueOf"}

\* k in o
HasProperty(o, k) == k \in DOMAIN o \/ k \in ObjectPrototype

\* o[k]
Get(o, k) ==
    IF k \in DOMAIN o THEN o[k]
    ELSE IF k \in ObjectPrototype THEN Fun(k)
    ELSE Undefined

\* o[k] = v
Put(o, k, v) == [x \in DOMAIN o \cup {k} |-> IF x = k THEN v ELSE o[x]]

\* delete o[k]
Delete(o, k) == [x \in DOMAIN o \ {k} |-> o[x]]

\* Array.isArray(v)
IsArray(v) == v.t = "array"

\* The attribute maps the lexical source hands to onopentag (tag.attributes).
NoAttributes == EmptyObject
AttrX == [k \in {"x"} |-> "1"]
AttrText == [k \in {"text"} |-> ""]
AttrChoices == {NoAttributes, AttrX, AttrText}

\* The element as it would be made if the attributes were dropped.
NewElementBare(tagName, tagAttributes) ==
    [k \in {"name", "attr"} |->
        IF k = "name" THEN Str(tagName) ELSE Obj(NoAttributes)]

\* { name: tagName, attr: tagAttributes }
NewElement(tagName, tagAttributes) ==
    [k \in {"name", "attr"} |->
        IF k = "name" THEN Str(tagName) ELSE Obj(tagAttributes)]

\* ------------------------------------------------------------ state
VARIABLES
    entry,          \* which entry point was called
    io,             \* what the read or the request reported to its callback
    pc,             \* "call", "io", "parsing", "threw", "done"
    parseCalls,     \* number of calls of XML2JSON.parse
    thrown,         \* message of the Error thrown, "" when none
    jsonObj,        \* parse: const jsonObj = {}
    nodes,          \* heap of the element objects created by onopentag
    elementsStack,  \* parse: const elementsStack = [] (indices into nodes)
    cdata,          \* parse: let cdata = ''
    parserError,    \* sax: parser.error is set
    errorsLogged,   \* number of console.log calls of onerror
    callbackCalls,  \* number of calls of callback
    callbackArg,    \* what callback was last called with
    delivered,      \* the tree as it was when callback was called
    doc,            \* the elements of the document, in OpenTag order
    srcOpen,        \* the lexical source's open elements (indices into doc)
    inCData,        \* the lexical source is inside a CDATA section
    section,        \* the chunks of the CDATA section being read
    content,        \* per element of doc: the Text and CDATA it directly contains
    ended,          \* the lexical source reported the end of the document
    size,           \* the size of the part of the document read so far
    ret,            \* the last accessor call and its result
    builds          \* the parse calls in progress side by side, one record each

vars == <<entry, io, pc, parseCalls, thrown, jsonObj, nodes, elementsStack, cdata, parserError,
          errorsLogged, callbackCalls, callbackArg, delivered, doc, srcOpen,
          inCData, section, content, ended, size, ret, builds>>

\* The closure state of one parse call, as the handlers see it.
Builder ==
    [jsonObj |-> jsonObj, nodes |-> nodes, elementsStack |-> elementsStack,
     cdata |-> cdata, error |-> parserError, logged |-> errorsLogged,
     calls |-> callbackCalls, arg |-> callbackArg, threw |-> FALSE]

\* parse: the closure state right after lines 69-76.
NewBuilder ==
    [jsonObj |-> EmptyObject, nodes |-> <<>>, elementsStack |-> <<>>,
     cdata |-> "", error |-> FALSE, logged |-> 0, calls |-> 0, arg |-> Undefined,
     threw |-> FALSE]

\* elementsStack.pop(): the popped value (undefined on an empty array) and the rest.
Pop(stack) ==
    IF Len(stack) = 0
    THEN [value |-> Undefined, rest |-> stack]
    ELSE [value |-> Ref(stack[Len(stack)]), rest |-> SubSeq(stack, 1, Len(stack) - 1)]

\* ------------------------------------------------------------ handlers
\* onerror as it would be without the call of parser.resume().
onerrorNoResume(b, error) == [b EXCEPT !.logged = @ + 1]

\* parser.onerror
onerror(b, error) ==
    [b EXCEPT !.logged = @ + 1,     \* console.log
              !.error = FALSE]      \* parser.resume()

\* parser.onopentag
onopentag(b, tag) ==
    LET tagName == tag.name
        tagAttributes == tag.attributes
        id == Len(b.nodes) + 1
        created == NewElement(tagName, tagAttributes)
    IN  IF DOMAIN b.jsonObj # {}
        THEN LET popped == Pop(b.elementsStack)
             IN  IF popped.value = Undefined
                 THEN \* tagName in undefined
                      [b EXCEPT !.elementsStack = popped.rest, !.threw = TRUE]
                 ELSE LET p == popped.value.v
                          parentElement == b.nodes[p]
                      IN  IF HasProperty(parentElement, tagName)
                          THEN IF IsArray(Get(parentElement, tagName))
                               THEN [b EXCEPT
                                       !.nodes = Append(
                                           [@ EXCEPT ![p] = Put(parentElement, tagName,
                                               Arr(Append(Get(parentElement, tagName).v, Ref(id))))],
                                           created),
                                       !.elementsStack = popped.rest \o <<p, id>>]
                               ELSE LET elementTmp == Get(parentElement, tagName)
                                    IN  [b EXCEPT
                                           !.nodes = Append(
                                               [@ EXCEPT ![p] = Put(Delete(parentElement, tagName), tagName,
                                                   Arr(<<elementTmp, Ref(id)>>))],
                                               created),
                                           !.elementsStack = popped.rest \o <<p, id>>]
                          ELSE [b EXCEPT
                                  !.nodes = Append(
                                      [@ EXCEPT ![p] = Put(parentElement, tagName, Ref(id))],
                                      created),
                                  !.elementsStack = popped.rest \o <<p, id>>]
        ELSE [b EXCEPT !.jsonObj = Put(@, tagName, Ref(id)),
                       !.nodes = Append(@, created),
                       !.elementsStack = Append(@, id)]

\* ontext as it would be if it kept a text the element already has.
ontextKeepFirst(b, text) ==
    LET popped == Pop(b.elementsStack)
    IN  IF popped.value = Undefined
        THEN [b EXCEPT !.elementsStack = popped.rest, !.threw = TRUE]
        ELSE LET element == popped.value.v
             IN  [b EXCEPT !.nodes[element] =
                              IF "innerText" \in DOMAIN @ THEN @
                              ELSE Put(@, "innerText", Str(text)),
                           !.elementsStack = Append(popped.rest, element)]

\* ontext as it would be if it added the text to the one the element has.
ontextAppending(b, text) ==
    LET popped == Pop(b.elementsStack)
    IN  IF popped.value = Undefined
        THEN [b EXCEPT !.elementsStack = popped.rest, !.threw = TRUE]
        ELSE LET element == popped.value.v
             IN  [b EXCEPT !.nodes[element] =
                              IF "innerText" \in DOMAIN @
                              THEN Put(@, "innerText", Str(@["innerText"].v \o text))
                              ELSE Put(@, "innerText", Str(text)),
                           !.elementsStack = Append(popped.rest, element)]

\* parser.ontext
ontext(b, text) ==
    LET popped == Pop(b.elementsStack)
    IN  IF popped.value = Undefined
        THEN \* undefined.innerText = text
             [b EXCEPT !.elementsStack = popped.rest, !.threw = TRUE]
        ELSE LET element == popped.value.v
             IN  [b EXCEPT !.nodes[element] = Put(@, "innerText", Str(text)),
                           !.elementsStack = Append(popped.rest, element)]

\* parser.onopencdata
onopencdata(b) == [b EXCEPT !.cdata = ""]

\* oncdata as it would be if it kept only the chunk reported last.
oncdataLastChunk(b, text) == [b EXCEPT !.cdata = text]

\* parser.oncdata
oncdata(b, text) == [b EXCEPT !.cdata = @ \o text]

\* onclosecdata as it would be if it skipped a section without content.
onclosecdataSkipEmpty(b) ==
    LET popped == Pop(b.elementsStack)
    IN  IF popped.value = Undefined
        THEN [b EXCEPT !.elementsStack = popped.rest, !.threw = TRUE]
        ELSE LET element == popped.value.v
             IN  [b EXCEPT !.nodes[element] =
                              IF b.cdata = "" THEN @ ELSE Put(@, "innerText", Str(b.cdata)),
                           !.elementsStack = Append(popped.rest, element),
                           !.cdata = ""]

\* parser.onclosecdata
onclosecdata(b) ==
    LET popped == Pop(b.elementsStack)
    IN  IF popped.value = Undefined
        THEN [b EXCEPT !.elementsStack = popped.rest, !.threw = TRUE]
        ELSE LET element == popped.value.v
             IN  [b EXCEPT !.nodes[element] = Put(@, "innerText", Str(b.cdata)),
                           !.elementsStack = Append(popped.rest, element),
                           !.cdata = ""]

\* onclosetag as it would be if it delivered the tree whenever the root closes.
onclosetagDelivering(b) ==
    [b EXCEPT !.elementsStack = Pop(@).rest,
              !.calls = IF Len(b.elementsStack) = 1 THEN @ + 1 ELSE @,
              !.arg = IF Len(b.elementsStack) = 1 THEN Root ELSE @]

\* onclosetag as it would be if it left the closed element on the stack.
onclosetagKeeping(b) == b

\* parser.onclosetag
onclosetag(b) == [b EXCEPT !.elementsStack = Pop(@).rest]

\* parser.onend
onend(b) == [b EXCEPT !.calls = @ + 1, !.arg = Root]     \* callback(jsonObj)

\* ------------------------------------------------------------ the parse call
\* The handlers' writes to the closure state, and the position of the call: an
\* exception thrown by a handler leaves parser.write and parse itself.
Install(b, last) ==
    /\ jsonObj' = b.jsonObj
    /\ nodes' = b.nodes
    /\ elementsStack' = b.elementsStack
    /\ cdata' = b.cdata
    /\ parserError' = b.error
    /\ errorsLogged' = b.logged
    /\ callbackCalls' = b.calls
    /\ callbackArg' = b.arg
    /\ pc' = IF b.threw THEN "threw" ELSE IF last THEN "done" ELSE "parsing"
    /\ thrown' = IF b.threw THEN "TypeError" ELSE thrown
    /\ delivered' = IF b.calls > callbackCalls
                    THEN [jsonObj |-> b.jsonObj, nodes |-> b.nodes]
                    ELSE delivered

\* XML2JSON.parse(xmlSource, callback): lines 69-76 create the closure state,
\* then parser.write(xmlSource) reports the events of the document.
StartParse ==
    /\ jsonObj' = NewBuilder.jsonObj
    /\ nodes' = NewBuilder.nodes
    /\ elementsStack' = NewBuilder.elementsStack
    /\ cdata' = NewBuilder.cdata
    /\ parserError' = NewBuilder.error
    /\ parseCalls' = parseCalls + 1
    /\ pc' = "parsing"
    /\ thrown' = thrown

\* ------------------------------------------------------------ entry points
\* parseFromUrl's callback as it would be if it took every 2xx status.
parseFromUrlCallback2xx(error, statusCode) ==
    IF ~error /\ statusCode \in 200..299
    THEN "parse"
    ELSE IF error THEN "An error occurred" ELSE "An HTTP error occurred"

\* The callback parseFromUrl gives to getRequest.
parseFromUrlCallback(error, statusCode) ==
    IF ~error /\ statusCode = 200
    THEN "parse"
    ELSE IF error
         THEN "An error occurred"
         ELSE IF statusCode # 200
              THEN "An HTTP error occurred"
              ELSE "return"

\* parseFromFile's callback as it would be if it did not look at error.
parseFromFileCallbackUnchecked(error) == "parse"

\* The callback parseFromFile gives to fs.readFile.
parseFromFileCallback(error) ==
    IF ~error THEN "parse" ELSE "An error occurred"

\* What a callback of an entry point does: it calls parse or throws.
Continue(outcome) ==
    IF outcome = "parse"
    THEN StartParse
    ELSE /\ pc' = IF outcome = "return" THEN "returned" ELSE "threw"
         /\ thrown' = IF outcome = "return" THEN thrown ELSE outcome
         /\ UNCHANGED <<jsonObj, nodes, elementsStack, cdata, parserError, parseCalls>>

\* XML2JSON.parse is called directly.
Parse ==
    /\ pc = "call" /\ entry = "parse"
    /\ StartParse
    /\ UNCHANGED <<builds, entry, io, errorsLogged, callbackCalls, callbackArg, delivered,
                   doc, srcOpen, inCData, section, content, ended, size, ret>>

\* XML2JSON.parseFromFile: fs.readFile calls back with (error, data).
ReadFileDone ==
    /\ pc = "io" /\ entry = "parseFromFile"
    /\ \E error \in BOOLEAN :
          /\ io' = [error |-> error, statusCode |-> 0]
          /\ Continue(parseFromFileCallback(error))
    /\ size' = size + 1
    /\ UNCHANGED <<builds, entry, errorsLogged, callbackCalls, callbackArg, delivered,
                   doc, srcOpen, inCData, section, content, ended, ret>>

\* XML2JSON.parseFromUrl: getRequest calls back with (error, response, body);
\* there is no response when the request failed.
RequestDone ==
    /\ pc = "io" /\ entry = "parseFromUrl"
    /\ \E error \in BOOLEAN, statusCode \in StatusCodes :
          /\ io' = [error |-> error, statusCode |-> IF error THEN 0 ELSE statusCode]
          /\ Continue(parseFromUrlCallback(error, statusCode))
    /\ size' = size + 1
    /\ UNCHANGED <<builds, entry, errorsLogged, callbackCalls, callbackArg, delivered,
                   doc, srcOpen, inCData, section, content, ended, ret>>

\* ------------------------------------------------------------ lexical events
Top(stack) == IF Len(stack) = 0 THEN 0 ELSE stack[Len(stack)]

\* What a start tag adds to the size of the document.
TagSize(attributes) == IF attributes = NoAttributes THEN 1 ELSE 2

\* The document read so far, with one more piece of content in element i.
AddContent(i, piece) ==
    IF i = 0 THEN content ELSE [content EXCEPT ![i] = Append(@, piece)]

\* parser.write(xmlSource) reports an element's start tag.
OpenTag ==
    /\ pc = "parsing" /\ ~inCData
    /\ \E name \in Tags, attributes \in AttrChoices :
          LET b == onopentag(Builder, [name |-> name, attributes |-> attributes])
          IN  /\ size + TagSize(attributes) <= MaxSize
              /\ Install(b, FALSE)
              /\ doc' = IF b.threw THEN doc
                        ELSE Append(doc, [tag |-> name, attributes |-> attributes,
                                          parent |-> Top(srcOpen)])
              /\ content' = IF b.threw THEN content ELSE Append(content, <<>>)
              /\ srcOpen' = IF b.threw THEN srcOpen ELSE Append(srcOpen, Len(doc) + 1)
              /\ size' = size + TagSize(attributes)
    /\ UNCHANGED <<builds, entry, io, parseCalls, inCData, section, ended, ret>>

\* parser.write(xmlSource) reports a run of text.
Text ==
    /\ pc = "parsing" /\ ~inCData
    /\ size < MaxSize
    /\ \E text \in Texts :
          /\ Install(ontext(Builder, text), FALSE)
          /\ content' = AddContent(Top(srcOpen), [kind |-> "Text", chunks |-> <<text>>])
    /\ size' = size + 1
    /\ UNCHANGED <<builds, entry, io, parseCalls, doc, srcOpen, inCData, section, ended, ret>>

\* parser.write(xmlSource) reports the start of a CDATA section.
CDataStart ==
    /\ pc = "parsing" /\ ~inCData
    /\ Len(srcOpen) > 0
    /\ size < MaxSize
    /\ Install(onopencdata(Builder), FALSE)
    /\ inCData' = TRUE
    /\ section' = <<>>
    /\ size' = size + 1
    /\ UNCHANGED <<builds, entry, io, parseCalls, doc, srcOpen, content, ended, ret>>

\* parser.write(xmlSource) reports a chunk of a CDATA section.
CDataChunk ==
    /\ pc = "parsing" /\ inCData
    /\ size < MaxSize
    /\ \E text \in Chunks :
          /\ Install(oncdata(Builder, text), FALSE)
          /\ section' = Append(section, text)
    /\ size' = size + 1
    /\ UNCHANGED <<builds, entry, io, parseCalls, doc, srcOpen, inCData, content, ended, ret>>

\* parser.write(xmlSource) reports the end of a CDATA section.
CDataEnd ==
    /\ pc = "parsing" /\ inCData
    /\ Install(onclosecdata(Builder), FALSE)
    /\ inCData' = FALSE
    /\ section' = <<>>
    /\ content' = AddContent(Top(srcOpen), [kind |-> "CData", chunks |-> section])
    /\ UNCHANGED <<builds, entry, io, parseCalls, doc, srcOpen, ended, size, ret>>

\* parser.write(xmlSource) reports an element's end tag.
CloseTag ==
    /\ pc = "parsing" /\ ~inCData
    /\ Len(srcOpen) > 0
    /\ Install(onclosetag(Builder), FALSE)
    /\ srcOpen' = SubSeq(srcOpen, 1, Len(srcOpen) - 1)
    /\ UNCHANGED <<builds, entry, io, parseCalls, doc, inCData, section, content, ended, size, ret>>

\* parser.write(xmlSource) meets malformed XML: sax sets parser.error and
\* reports it.
Error ==
    /\ pc = "parsing"
    /\ size < MaxSize
    /\ Install(onerror([Builder EXCEPT !.error = TRUE], "malformed"), FALSE)
    /\ size' = size + 1
    /\ UNCHANGED <<builds, entry, io, parseCalls, doc, srcOpen, inCData, section, content,
                   ended, ret>>

\* parser.close(): sax throws parser.error when it is still set, and reports
\* the end of the document otherwise; then parse returns.
End ==
    /\ pc = "parsing" /\ ~inCData
    /\ Len(srcOpen) = 0
    /\ IF parserError
       THEN Install([Builder EXCEPT !.threw = TRUE], TRUE)
       ELSE Install(onend(Builder), TRUE)
    /\ ended' = TRUE
    /\ UNCHANGED <<builds, entry, io, parseCalls, doc, srcOpen, inCData, section, content,
                   size, ret>>

\* ------------------------------------------------------------ accessors
\* typeof v
TypeOf(v) ==
    IF v.t \in {"node", "root", "array", "object", "null"} THEN "object" ELSE v.t

\* Whether v can be the right operand of `in` (a primitive there throws).
IsObject(v) == v.t \in {"node", "root", "array", "object", "function"}

\* The own properties of the object v refers to, in the tree h.
Own(h, v) ==
    IF v.t = "node" THEN h.nodes[v.v]
    ELSE IF v.t = "root" THEN h.jsonObj
    ELSE IF v.t = "object" THEN [k \in DOMAIN v.v |-> Str(v.v[k])]
    ELSE IF v.t = "array"
         THEN [k \in {"length"} |-> [t |-> "number", v |-> Len(v.v)]]
         ELSE EmptyObject

\* k in v, for an object v
In(h, k, v) == HasProperty(Own(h, v), k)

\* v[k]: a read of a property of undefined or null throws, a primitive has
\* the properties of its prototype.
Prop(h, v, k) ==
    IF v.t \in {"undefined", "null", "throw"} THEN TypeError ELSE Get(Own(h, v), k)

\* XML2JSON.getElementAttr, src/unnamed/part_001
getElementAttr(h, element, attr) ==
    IF element = Undefined \/ element = Null \/ TypeOf(element) # "object"
    THEN Undefined
    ELSE IF ~IsObject(Prop(h, element, "attr"))
         THEN TypeError
         ELSE IF In(h, attr, Prop(h, element, "attr"))
              THEN Prop(h, Prop(h, element, "attr"), attr)
              ELSE Undefined

\* getElementText as it would be if it fell back to the attribute named key.
getElementTextByKey(h, element, key) ==
    IF element = Undefined \/ element = Null \/ TypeOf(element) # "object"
    THEN Undefined
    ELSE IF In(h, "innerText", element)
         THEN Prop(h, element, "innerText")
         ELSE IF ~IsObject(Prop(h, element, "attr"))
              THEN TypeError
              ELSE IF In(h, key, Prop(h, element, "attr"))
                   THEN Prop(h, Prop(h, element, "attr"), key)
                   ELSE Undefined

\* XML2JSON.getElementText, src/unnamed/part_001; arguments after the first
\* are ignored.
getElementText(h, element, key) ==
    IF element = Undefined \/ element = Null \/ TypeOf(element) # "object"
    THEN Undefined
    ELSE IF In(h, "innerText", element)
         THEN Prop(h, element, "innerText")
         ELSE IF ~IsObject(Prop(h, element, "attr"))
              THEN TypeError
              ELSE IF In(h, "text", Prop(h, element, "attr"))
                   THEN Prop(h, Prop(h, element, "attr"), "text")
                   ELSE Undefined

\* XML2JSON.getElementAttr, src/src/index.js
getElementAttrIndex(h, element, attr) ==
    IF ~IsObject(Prop(h, element, "attr"))
    THEN TypeError
    ELSE IF In(h, attr, Prop(h, element, "attr"))
         THEN Prop(h, Prop(h, element, "attr"), attr)
         ELSE Null

\* XML2JSON.getElementText, src/src/index.js; arguments after the first are
\* ignored.
getElementTextIndex(h, element, key) ==
    IF ~IsObject(element)
    THEN TypeError
    ELSE IF In(h, "innerText", element)
         THEN Prop(h, element, "innerText")
         ELSE IF ~IsObject(Prop(h, element, "attr"))
              THEN TypeError
              ELSE IF In(h, "text", Prop(h, element, "attr"))
                   THEN Prop(h, Prop(h, element, "attr"), "text")
                   ELSE Null

\* The two revisions of the accessors.
Revisions == {"part_001", "index"}

\* The tree callback received.
Tree == [jsonObj |-> jsonObj, nodes |-> nodes]

\* What a caller can hand to an accessor: the tree, a value read from a key
\* of the tree or of one of its nodes, or a value of its own.
Elements ==
    {Undefined, Null, Str("keep"), Root}
        \cup {Prop(Tree, Root, k) : k \in Tags}
        \cup {Prop(Tree, Ref(i), k) : i \in 1..Len(nodes), k \in Tags \cup {"attr"}}

\* The tree as getElementText would leave it if it kept the text it found in
\* the element's innerText.
TreeAfterGetElementTextCaching(h, element, key) ==
    IF element.t = "node" /\ getElementText(h, element, key).t = "string"
    THEN [h EXCEPT !.nodes[element.v] = Put(@, "innerText", getElementText(h, element, key))]
    ELSE h

\* The tree after a call of getElementText: the function only tests with
\* `in`, reads properties and returns; it assigns nothing.
TreeAfterGetElementText(h, element, key) == h

\* The tree after a call of getElementAttr: likewise.
TreeAfterGetElementAttr(h, element, attr) == h

NoCall == [fn |-> "none", rev |-> "none", element |-> Undefined, key |-> "", result |-> Undefined]

\* The caller reads an attribute of an element of the delivered tree.
CallGetElementAttr ==
    /\ pc = "done"
    /\ size + 2 <= MaxSize
    /\ \E rev \in Revisions, element \in Elements, attr \in Keys :
          /\ ret' = [fn |-> "getElementAttr", rev |-> rev, element |-> element, key |-> attr,
                  result |-> IF rev = "index"
                             THEN getElementAttrIndex(Tree, element, attr)
                             ELSE getElementAttr(Tree, element, attr)]
          /\ jsonObj' = TreeAfterGetElementAttr(Tree, element, attr).jsonObj
          /\ nodes' = TreeAfterGetElementAttr(Tree, element, attr).nodes
    /\ size' = size + 2
    /\ UNCHANGED <<builds, entry, io, pc, parseCalls, thrown, elementsStack,
                   cdata, parserError, errorsLogged, callbackCalls, callbackArg,
                   delivered, doc, srcOpen, inCData, section, content, ended>>

\* The caller reads the text of an element of the delivered tree.
CallGetElementText ==
    /\ pc = "done"
    /\ size + 2 <= MaxSize
    /\ \E rev \in Revisions, element \in Elements, key \in Keys :
          /\ ret' = [fn |-> "getElementText", rev |-> rev, element |-> element, key |-> key,
                  result |-> IF rev = "index"
                             THEN getElementTextIndex(Tree, element, key)
                             ELSE getElementText(Tree, element, key)]
          /\ jsonObj' = TreeAfterGetElementText(Tree, element, key).jsonObj
          /\ nodes' = TreeAfterGetElementText(Tree, element, key).nodes
    /\ size' = size + 2
    /\ UNCHANGED <<builds, entry, io, pc, parseCalls, thrown, elementsStack,
                   cdata, parserError, errorsLogged, callbackCalls, callbackArg,
                   delivered, doc, srcOpen, inCData, section, content, ended>>

\* ------------------------------------------------------------ specification
InitCall ==
    /\ entry \in Entries
    /\ io = [error |-> FALSE, statusCode |-> 0]
    /\ pc = IF entry = "parse" THEN "call" ELSE "io"
    /\ parseCalls = 0
    /\ thrown = ""
    /\ jsonObj = NewBuilder.jsonObj
    /\ nodes = NewBuilder.nodes
    /\ elementsStack = NewBuilder.elementsStack
    /\ cdata = NewBuilder.cdata
    /\ parserError = NewBuilder.error
    /\ errorsLogged = 0
    /\ callbackCalls = 0
    /\ callbackArg = NewBuilder.arg
    /\ delivered = [jsonObj |-> EmptyObject, nodes |-> <<>>]
    /\ doc = <<>>
    /\ srcOpen = <<>>
    /\ inCData = FALSE
    /\ section = <<>>
    /\ content = <<>>
    /\ ended = FALSE
    /\ size = 0
    /\ ret = NoCall

\* One call of an entry point, with no other call beside it.
Init == InitCall /\ builds = <<>>

Next ==
    \/ Parse
    \/ ReadFileDone
    \/ RequestDone
    \/ OpenTag
    \/ Text
    \/ CDataStart
    \/ CDataChunk
    \/ CDataEnd
    \/ CloseTag
    \/ Error
    \/ End
    \/ CallGetElementAttr
    \/ CallGetElementText

Spec == Init /\ [][Next]_vars

\* ------------------------------------------------------------ several calls
\* The calls of the entry points made side by side.
Calls == {1, 2}

\* The size of the documents the calls made side by side read, taken together.
MaxSizeTwo == 3

\* What the lexical source reports to a handler.
Event(kind, tag, attributes, text) ==
    [kind |-> kind, tag |-> tag, attributes |-> attributes, text |-> text]

\* The handler parse registered for an event, applied to the closure state b.
Handle(b, e) ==
    CASE e.kind = "OpenTag" -> onopentag(b, [name |-> e.tag, attributes |-> e.attributes])
      [] e.kind = "Text" -> ontext(b, e.text)
      [] e.kind = "CDataStart" -> onopencdata(b)
      [] e.kind = "CDataChunk" -> oncdata(b, e.text)
      [] e.kind = "CDataEnd" -> onclosecdata(b)
      [] e.kind = "CloseTag" -> onclosetag(b)
      [] e.kind = "Error" -> onerror([b EXCEPT !.error = TRUE], "malformed")
      [] OTHER -> IF b.error THEN [b EXCEPT !.threw = TRUE] ELSE onend(b)

\* parser.write(xmlSource).close() of one call on its own: the handlers applied
\* to the events in order, up to the first that throws.
RECURSIVE Feed(_, _)
Feed(b, events) ==
    IF events = <<>> \/ b.threw THEN b
    ELSE Feed(Handle(b, Head(events)), Tail(events))

\* XML2JSON.parse(xmlSource, callback) alone on the events of xmlSource.
ParseAlone(events) == Feed(NewBuilder, events)

\* A call of entry point e that has not started.
NewCall(e) ==
    [entry |-> e, pc |-> IF e = "parse" THEN "call" ELSE "io", thrown |-> "",
     b |-> NewBuilder, log |-> <<>>, open |-> 0, inCData |-> FALSE,
     overlapped |-> FALSE]

\* The events the lexical source of call c can report next.
NextEvents(c) ==
    IF c.inCData
    THEN {Event("CDataChunk", "", NoAttributes, text) : text \in Chunks}
         \cup {Event("CDataEnd", "", NoAttributes, ""), Event("Error", "", NoAttributes, "")}
    ELSE {Event("OpenTag", name, attributes, "") : name \in Tags, attributes \in AttrChoices}
         \cup {Event("Text", "", NoAttributes, text) : text \in Texts}
         \cup {Event("Error", "", NoAttributes, "")}
         \cup (IF c.open > 0
               THEN {Event("CDataStart", "", NoAttributes, ""),
                     Event("CloseTag", "", NoAttributes, "")}
               ELSE {Event("End", "", NoAttributes, "")})

\* What an event adds to the size of the document.
EventSize(e) ==
    IF e.kind = "OpenTag" THEN TagSize(e.attributes)
    ELSE IF e.kind \in {"Text", "CDataStart", "CDataChunk", "Error"} THEN 1 ELSE 0

\* Call i after its lexical source reported e to its handler.
AfterEvent(c, e) ==
    LET b == Handle(c.b, e)
    IN  [c EXCEPT
           !.b = b,
           !.log = Append(@, e),
           !.pc = IF b.threw THEN "threw" ELSE IF e.kind = "End" THEN "done" ELSE "parsing",
           !.thrown = IF b.threw THEN "TypeError" ELSE @,
           !.open = IF b.threw THEN @
                    ELSE IF e.kind = "OpenTag" THEN @ + 1
                    ELSE IF e.kind = "CloseTag" THEN @ - 1 ELSE @,
           !.inCData = IF e.kind = "CDataStart" THEN TRUE
                       ELSE IF e.kind = "CDataEnd" THEN FALSE ELSE @]

\* Call i after the callback of its entry point ran.
AfterCallback(c, outcome) ==
    IF outcome = "parse"
    THEN [c EXCEPT !.pc = "parsing", !.b = NewBuilder]
    ELSE [c EXCEPT !.pc = IF outcome = "return" THEN "returned" ELSE "threw",
                   !.thrown = IF outcome = "return" THEN @ ELSE outcome]

\* Write as it would be if cdata were declared once for all calls.
WriteSharedCData(bs, i, c) ==
    [j \in DOMAIN bs |->
        IF j = i THEN c
        ELSE [bs[j] EXCEPT !.b.cdata = c.b.cdata,
                           !.overlapped = @ \/ (bs[j].pc = "parsing" /\ bs[j].log # <<>>)]]

\* Call i becomes c. The closure state is created by the call (const jsonObj,
\* const elementsStack, let cdata, and the parser, all inside parse), so a
\* step of call i writes the state of call i and of no other call; the other
\* calls that are in the middle of a build have been overlapped by it.
Write(bs, i, c) ==
    [j \in DOMAIN bs |->
        IF j = i THEN c
        ELSE [bs[j] EXCEPT !.overlapped = @ \/ (bs[j].pc = "parsing" /\ bs[j].log # <<>>)]]

callVars == <<entry, io, pc, parseCalls, thrown, jsonObj, nodes, elementsStack, cdata,
              parserError, errorsLogged, callbackCalls, callbackArg, delivered, doc,
              srcOpen, inCData, section, content, ended, ret>>

\* Call i is XML2JSON.parse called directly.
ParseOf(i) ==
    /\ builds[i].pc = "call"
    /\ builds' = Write(builds, i, AfterCallback(builds[i], "parse"))
    /\ UNCHANGED <<callVars, size>>

\* fs.readFile calls back in call i.
ReadFileDoneOf(i) ==
    /\ builds[i].pc = "io" /\ builds[i].entry = "parseFromFile"
    /\ size < MaxSizeTwo
    /\ \E error \in BOOLEAN :
          builds' = Write(builds, i, AfterCallback(builds[i], parseFromFileCallback(error)))
    /\ size' = size + 1
    /\ UNCHANGED callVars

\* getRequest calls back in call i.
RequestDoneOf(i) ==
    /\ builds[i].pc = "io" /\ builds[i].entry = "parseFromUrl"
    /\ size < MaxSizeTwo
    /\ \E error \in BOOLEAN, statusCode \in StatusCodes :
          builds' = Write(builds, i,
                          AfterCallback(builds[i], parseFromUrlCallback(error, statusCode)))
    /\ size' = size + 1
    /\ UNCHANGED callVars

\* The lexical source of call i reports its next event.
EventOf(i) ==
    /\ builds[i].pc = "parsing"
    /\ \E e \in NextEvents(builds[i]) :
          /\ size + EventSize(e) <= MaxSizeTwo
          /\ builds' = Write(builds, i, AfterEvent(builds[i], e))
          /\ size' = size + EventSize(e)
    /\ UNCHANGED callVars

InitTwo ==
    /\ InitCall
    /\ entry = "parse"
    /\ builds \in [Calls -> {NewCall(e) : e \in Entries}]

NextTwo ==
    \E i \in Calls :
        \/ ParseOf(i)
        \/ ReadFileDoneOf(i)
        \/ RequestDoneOf(i)
        \/ EventOf(i)

\* Two calls of the entry points whose steps are taken in any order.
SpecTwo == InitTwo /\ [][NextTwo]_vars

\* ------------------------------------------------------------ given documents
\* The events sax reports for <t1 ..><t2 ..>x1</t2><t3 ..>x2</t3></t1>.
TwoChildren(t1, a1, t2, a2, x1, t3, a3, x2) ==
    << Event("OpenTag", t1, a1, ""),
       Event("OpenTag", t2, a2, ""), Event("Text", "", NoAttributes, x1),
       Event("CloseTag", "", NoAttributes, ""),
       Event("OpenTag", t3, a3, ""), Event("Text", "", NoAttributes, x2),
       Event("CloseTag", "", NoAttributes, ""),
       Event("CloseTag", "", NoAttributes, "") >>

\* The documents given to parse: a root with two children that hold a text.
Documents ==
    { TwoChildren(t1, a1, t2, a2, x1, t3, a3, x2) :
        t1 \in {"a", "b"}, a1 \in {NoAttributes, AttrX},
        t2 \in {"a", "b"}, a2 \in {NoAttributes, AttrX}, x1 \in {"hi", "bye"},
        t3 \in {"a", "b"}, a3 \in {NoAttributes, AttrX}, x2 \in {"hi", "bye"} }

\* XML2JSON.parse(xmlSource, callback) has been called: nothing is read yet.
NewParse(xmlSource) ==
    [xmlSource |-> xmlSource, read |-> 0, pc |-> "parsing", b |-> NewBuilder]

\* parser.write(xmlSource) reports the next event of the document.
WriteEvent ==
    /\ builds[1].pc = "parsing"
    /\ builds[1].read < Len(builds[1].xmlSource)
    /\ LET b == Handle(builds[1].b, builds[1].xmlSource[builds[1].read + 1])
       IN  builds' = [builds EXCEPT ![1].b = b,
                                    ![1].read = @ + 1,
                                    ![1].pc = IF b.threw THEN "threw" ELSE "parsing"]
    /\ UNCHANGED <<callVars, size>>

\* parser.close() reports the end of the document.
Close ==
    /\ builds[1].pc = "parsing"
    /\ builds[1].read = Len(builds[1].xmlSource)
    /\ LET b == Handle(builds[1].b, Event("End", "", NoAttributes, ""))
       IN  builds' = [builds EXCEPT ![1].b = b,
                                    ![1].pc = IF b.threw THEN "threw" ELSE "done"]
    /\ UNCHANGED <<callVars, size>>

InitDoc ==
    /\ InitCall
    /\ entry = "parse"
    /\ \E xmlSource \in Documents : builds = <<NewParse(xmlSource)>>

NextDoc ==
    \/ WriteEvent
    \/ Close

\* One call of parse on a given document.
SpecDoc == InitDoc /\ [][NextDoc]_vars

\* ------------------------------------------------------------ the document
\* The elements of doc with parent p and tag name t, in document order.
Kids(p, t) ==
    SelectSeq([i \in 1..Len(doc) |-> i],
              LAMBDA i : doc[i].parent = p /\ doc[i].tag = t)

\* Element i of doc has been closed.
Closed(i) == \A k \in 1..Len(srcOpen) : srcOpen[k] # i

\* The references to the elements q lists.
Refs(q) == [k \in 1..Len(q) |-> Ref(q[k])]

\* The document has one top-level element and no parent has two children with
\* the same tag name.
NoRepeatedSibling ==
    \A i, j \in 1..Len(doc) :
        (i # j /\ doc[i].parent = doc[j].parent) => doc[i].tag # doc[j].tag

\* ------------------------------------------------------------ claims
\* C1: a finished parent with N >= 2 children of tag name t holds under key t
\* the sequence of exactly those N child nodes, in document order.
C1_RepeatedChildrenFormSequence ==
    \A p \in 1..Len(nodes) : \A t \in Tags :
        (Closed(p) /\ Len(Kids(p, t)) >= 2)
            => /\ t \in DOMAIN nodes[p]
               /\ nodes[p][t] = Arr(Refs(Kids(p, t)))

\* C1 for the tag names that are not a property a node has before it gets
\* children.
C1_ForFreshKeys ==
    \A p \in 1..Len(nodes) : \A t \in Tags \ ({"name", "attr"} \cup ObjectPrototype) :
        (Len(Kids(p, t)) >= 2)
            => /\ t \in DOMAIN nodes[p]
               /\ nodes[p][t] = Arr(Refs(Kids(p, t)))

\* A parent with two children of one tag name and a child of another tag name
\* between them has been closed.
C1_Interleaved ==
    \E p \in 1..Len(nodes) : \E t \in Tags :
        /\ Closed(p) /\ Len(Kids(p, t)) >= 2
        /\ \E j \in 1..Len(doc) :
              /\ doc[j].parent = p /\ doc[j].tag # t
              /\ Kids(p, t)[1] < j /\ j < Kids(p, t)[2]

\* C2: without repeated siblings the delivered root has exactly one key, the
\* root tag, and every child key maps to the lone child node.
C2_LoneChildrenAttachDirectly ==
    (pc = "done" /\ Len(doc) >= 1 /\ NoRepeatedSibling)
        => /\ DOMAIN jsonObj = {doc[1].tag}
           /\ \A i \in 1..Len(doc) :
                 IF doc[i].parent = 0
                 THEN jsonObj[doc[i].tag] = Ref(i)
                 ELSE /\ doc[i].tag \in DOMAIN nodes[doc[i].parent]
                      /\ nodes[doc[i].parent][doc[i].tag] = Ref(i)

\* C2 for the tag names that are not a property a node has before it gets
\* children.
C2_ForFreshKeys ==
    (pc = "done" /\ Len(doc) >= 1 /\ NoRepeatedSibling
       /\ \A i \in 1..Len(doc) : doc[i].tag \notin {"name", "attr"} \cup ObjectPrototype)
        => /\ DOMAIN jsonObj = {doc[1].tag}
           /\ \A i \in 1..Len(doc) :
                 IF doc[i].parent = 0
                 THEN jsonObj[doc[i].tag] = Ref(i)
                 ELSE /\ doc[i].tag \in DOMAIN nodes[doc[i].parent]
                      /\ nodes[doc[i].parent][doc[i].tag] = Ref(i)

\* Element i of doc has no child element.
Leaf(i) == \A j \in 1..Len(doc) : doc[j].parent # i

CDataKeep == [kind |-> "CData", chunks |-> <<"keep">>]
TextDrop == [kind |-> "Text", chunks |-> <<"drop">>]

\* The innerText of node i, Undefined when the node has none.
InnerText(i) == IF "innerText" \in DOMAIN nodes[i] THEN nodes[i]["innerText"] ELSE Undefined

\* C3 as stated: an element whose content is the CDATA section "keep" and the
\* text "drop", in either order, ends with innerText "keep".
C3_CDataOverridesTextBothOrders ==
    \A i \in 1..Len(nodes) :
        (Closed(i) /\ Leaf(i)
           /\ content[i] \in {<<CDataKeep, TextDrop>>, <<TextDrop, CDataKeep>>})
            => InnerText(i) = Str("keep")

\* C3 amended: the event processed last wins. Text "drop" then CDATA "keep"
\* ends with innerText "keep"; CDATA "keep" then text "drop" ends with "drop".
C3_LastProcessedWins ==
    \A i \in 1..Len(nodes) :
        (Closed(i) /\ Leaf(i))
            => /\ content[i] = <<TextDrop, CDataKeep>> => InnerText(i) = Str("keep")
               /\ content[i] = <<CDataKeep, TextDrop>> => InnerText(i) = Str("drop")

\* An element with CDATA "keep" followed by text "drop" was delivered with
\* innerText "drop".
C3_Witness ==
    /\ pc = "done"
    /\ \E i \in 1..Len(nodes) :
          /\ Leaf(i) /\ content[i] = <<CDataKeep, TextDrop>>
          /\ InnerText(i) = Str("drop")

\* ------------------------------------------------------------ accessor claims
\* v refers to an element node as onopentag created it: its name is a string
\* and its attr is the attribute map of its start tag.
IsElementNode(v) ==
    /\ v.t = "node"
    /\ nodes[v.v]["name"] = Str(doc[v.v].tag)
    /\ nodes[v.v]["attr"] = Obj(doc[v.v].attributes)

\* The results that signal "absent".
Absent == {Undefined, Null}

\* C4: getElementAttr returns the recorded value of a recorded attribute, and
\* absent for every other key.
C4_AttributeOrAbsent ==
    (ret.fn = "getElementAttr" /\ IsElementNode(ret.element))
        => LET attributes == doc[ret.element.v].attributes
           IN  IF ret.key \in DOMAIN attributes
               THEN ret.result = Str(attributes[ret.key])
               ELSE ret.result \in Absent

\* C4 for the keys that Object.prototype does not define.
C4_ForOwnKeys ==
    (ret.fn = "getElementAttr" /\ IsElementNode(ret.element)
       /\ ret.key \notin ObjectPrototype)
        => LET attributes == doc[ret.element.v].attributes
           IN  IF ret.key \in DOMAIN attributes
               THEN ret.result = Str(attributes[ret.key])
               ELSE ret.result \in Absent

\* C5: an accessor given anything but an element node returns absent and
\* does not throw; stated for the revision that guards its argument
\* (part_001).
C5_NonNodeIsAbsent ==
    (ret.fn # "none" /\ ret.rev = "part_001" /\ ~IsElementNode(ret.element))
        => ret.result \in Absent

\* C5 for both revisions.
C5_NonNodeIsAbsentBothRevisions ==
    (ret.fn # "none" /\ ~IsElementNode(ret.element))
        => ret.result \in Absent

\* C5 for the revision of part_001 and the arguments its guard rejects.
C5_GuardedArguments ==
    (ret.fn # "none" /\ ret.rev = "part_001"
       /\ ret.element.t \in {"undefined", "null", "string", "function"})
        => ret.result = Undefined

\* C6 as stated: getElementText returns innerText when it is set, else the
\* attribute named by the key argument, else absent.
C6_TextOrKeyAttribute ==
    (ret.fn = "getElementText" /\ IsElementNode(ret.element))
        => LET i == ret.element.v
               attributes == doc[i].attributes
           IN  IF "innerText" \in DOMAIN nodes[i]
               THEN ret.result = nodes[i]["innerText"]
               ELSE IF ret.key \in DOMAIN attributes
                    THEN ret.result = Str(attributes[ret.key])
                    ELSE ret.result \in Absent

\* C6 amended: getElementText returns innerText when it is set, else the
\* attribute named "text" whatever the key argument is, else absent.
C6_TextOrTextAttribute ==
    (ret.fn = "getElementText" /\ IsElementNode(ret.element))
        => LET i == ret.element.v
               attributes == doc[i].attributes
           IN  IF "innerText" \in DOMAIN nodes[i]
               THEN ret.result = nodes[i]["innerText"]
               ELSE IF "text" \in DOMAIN attributes
                    THEN ret.result = Str(attributes["text"])
                    ELSE ret.result \in Absent

\* getElementText was called with key "x" on a node without innerText whose
\* only attribute is text, and returned the value of text.
C6_Witness ==
    /\ ret.fn = "getElementText" /\ IsElementNode(ret.element)
    /\ ret.key = "x"
    /\ "innerText" \notin DOMAIN nodes[ret.element.v]
    /\ doc[ret.element.v].attributes = AttrText
    /\ ret.result = Str("")

\* ------------------------------------------------------------ delivery claims
\* C7: callback is called at the End event and not before, once, with the
\* document root, and the tree is not changed after that.
C7_DeliveredOnceAtEnd ==
    /\ callbackCalls > 0 => ended
    /\ callbackCalls <= 1
    /\ pc = "done" => (callbackCalls = 1 /\ callbackArg = Root)
    /\ callbackCalls > 0 => delivered = Tree

\* A tree of two elements with text was delivered.
C7_Witness ==
    /\ pc = "done" /\ callbackCalls = 1
    /\ Len(nodes) >= 2
    /\ \E i \in 1..Len(nodes) : "innerText" \in DOMAIN nodes[i]

\* parseFromUrl's callback has run.
UrlAnswered == entry = "parseFromUrl" /\ pc # "io"

TransportError == {"An error occurred", "An HTTP error occurred"}

\* C8 as stated: parseFromUrl throws, without calling parse or callback,
\* exactly when the request failed or the status is not a 2xx status.
C8_ErrorIffNot2xx ==
    UrlAnswered
        => ((thrown \in TransportError /\ parseCalls = 0 /\ callbackCalls = 0)
               <=> (io.error \/ io.statusCode \notin 200..299))

\* C8 amended: parseFromUrl throws, without calling parse or callback, exactly
\* when the request failed or the status is not 200; for status 200 it calls
\* parse once, and callback then receives the document root.
C8_ErrorIffNot200 ==
    UrlAnswered
        => /\ (thrown \in TransportError /\ parseCalls = 0 /\ callbackCalls = 0)
                 <=> (io.error \/ io.statusCode # 200)
           /\ (~io.error /\ io.statusCode = 200) => parseCalls = 1
           /\ thrown \in TransportError => (pc = "threw" /\ Len(doc) = 0)
           /\ pc = "done" => (callbackCalls = 1 /\ callbackArg = Root)

\* A response with status 204 made parseFromUrl throw.
C8_Witness ==
    /\ UrlAnswered /\ ~io.error /\ io.statusCode = 204
    /\ pc = "threw" /\ thrown = "An HTTP error occurred"

\* C9: a failed read makes parseFromFile throw, with parse and callback never
\* called and no event consumed; a successful read calls parse once.
C9_ReadFailureStopsBeforeParse ==
    (entry = "parseFromFile" /\ pc # "io")
        => IF io.error
           THEN /\ pc = "threw" /\ thrown = "An error occurred"
                /\ parseCalls = 0 /\ callbackCalls = 0
                /\ Len(doc) = 0 /\ Len(nodes) = 0 /\ ~ended
           ELSE /\ parseCalls = 1
                /\ thrown # "An error occurred"
                /\ pc = "done" => (callbackCalls = 1 /\ callbackArg = Root)

\* The read of parseFromFile failed.
C9_Witness ==
    entry = "parseFromFile" /\ pc = "threw" /\ io.error

\* C10: an Error event changes nothing of the build but the log, leaves the
\* parser resumed, and the end of the document still delivers the tree.
C10_ErrorKeepsBuild ==
    /\ [][errorsLogged' # errorsLogged
            => /\ UNCHANGED <<jsonObj, nodes, elementsStack, cdata, callbackCalls,
                              callbackArg, delivered, thrown>>
               /\ errorsLogged' = errorsLogged + 1
               /\ ~parserError' /\ pc' = "parsing"]_vars
    /\ [](~parserError)
    /\ []((ended /\ errorsLogged > 0 /\ thrown = "") => (pc = "done" /\ callbackCalls = 1))

\* A tree was delivered after an Error event.
C10_Witness ==
    /\ errorsLogged > 0 /\ pc = "done" /\ callbackCalls = 1
    /\ Len(nodes) >= 2

\* C11: every node keeps the name and the attr its own OpenTag gave it,
\* whatever events follow, and so has them in the delivered tree.
C11_NameAndAttrFixed ==
    \A i \in 1..Len(nodes) :
        /\ Get(nodes[i], "name") = Str(doc[i].tag)
        /\ Get(nodes[i], "attr") = Obj(doc[i].attributes)

\* The same for the parents none of whose children is named "name".
C11_ForFreshKeys ==
    \A i \in 1..Len(nodes) :
        (Kids(i, "name") = <<>>)
            => /\ Get(nodes[i], "name") = Str(doc[i].tag)
               /\ Get(nodes[i], "attr") = Obj(doc[i].attributes)

C13_Document == TwoChildren("a", AttrX, "b", NoAttributes, "hi", "b", NoAttributes, "bye")

\* C13: for <a x="1"><b>hi</b><b>bye</b></a> the delivered tree is exactly
\* { a: { name: "a", attr: { x: "1" }, b: [ { name: "b", attr: {}, innerText:
\* "hi" }, { name: "b", attr: {}, innerText: "bye" } ] } }, with no other keys.
C13_RoundTrip ==
    (builds # <<>> /\ builds[1].pc = "done" /\ builds[1].xmlSource = C13_Document)
        => /\ builds[1].b.calls = 1
           /\ builds[1].b.arg = Root
           /\ builds[1].b.jsonObj = [k \in {"a"} |-> Ref(1)]
           /\ builds[1].b.nodes =
                << [k \in {"name", "attr", "b"} |->
                      IF k = "name" THEN Str("a")
                      ELSE IF k = "attr" THEN Obj(AttrX)
                      ELSE Arr(<<Ref(2), Ref(3)>>)],
                   [k \in {"name", "attr", "innerText"} |->
                      IF k = "name" THEN Str("b")
                      ELSE IF k = "attr" THEN Obj(NoAttributes)
                      ELSE Str("hi")],
                   [k \in {"name", "attr", "innerText"} |->
                      IF k = "name" THEN Str("b")
                      ELSE IF k = "attr" THEN Obj(NoAttributes)
                      ELSE Str("bye")] >>

\* The document was read to its end and its tree delivered.
C13_Witness ==
    /\ builds # <<>> /\ builds[1].pc = "done" /\ builds[1].xmlSource = C13_Document
    /\ builds[1].read = 8 /\ builds[1].b.calls = 1

\* What accessor fn of revision rev returns for (element, key) on tree h.
Returned(h, fn, rev, element, key) ==
    IF fn = "getElementAttr"
    THEN IF rev = "index" THEN getElementAttrIndex(h, element, key)
         ELSE getElementAttr(h, element, key)
    ELSE IF rev = "index" THEN getElementTextIndex(h, element, key)
         ELSE getElementText(h, element, key)

TextStepOn(i, text) ==
    /\ pc = "parsing" /\ i = Top(srcOpen)
    /\ content' = [content EXCEPT ![i] = Append(@, [kind |-> "Text", chunks |-> <<text>>])]

\* The last piece of content of element i is a text.
EndsWithText(i) ==
    content[i] # <<>> /\ content[i][Len(content[i])].kind = "Text"

\* C15: a Text event sets innerText of the innermost open element and changes
\* no other node, the cursor or the root container; the text reported last
\* replaces the earlier ones, so an element whose last content is a text has
\* that text as innerText, whatever its children hold.
C15_TextGoesToInnermost ==
    /\ [][\A i \in 1..Len(nodes) : \A text \in Texts :
             TextStepOn(i, text)
                => /\ nodes' = [nodes EXCEPT ![i] = Put(@, "innerText", Str(text))]
                   /\ jsonObj' = jsonObj
                   /\ elementsStack' = elementsStack
                   /\ pc' = "parsing"]_vars
    /\ [](\A i \in 1..Len(nodes) :
             EndsWithText(i)
                => InnerText(i) = Str(content[i][Len(content[i])].chunks[1]))

\* Mixed content: Text(x), a child with Text(y), Text(z), and the parent ends
\* with z and the child with y.
C15_Witness ==
    /\ pc = "done" /\ Len(nodes) = 2 /\ doc[2].parent = 1
    /\ content[1] = << [kind |-> "Text", chunks |-> <<"drop">>],
                       [kind |-> "Text", chunks |-> <<"keep">>] >>
    /\ content[2] = << [kind |-> "Text", chunks |-> <<"drop">>] >>
    /\ InnerText(1) = Str("keep")
    /\ InnerText(2) = Str("drop")

\* s[1] \o s[2] \o ... for a sequence s of strings.
RECURSIVE Concat(_)
Concat(s) == IF s = <<>> THEN "" ELSE Head(s) \o Concat(Tail(s))

\* The step ends the CDATA section read while element i is the innermost open
\* element.
CDataEndStepOn(i) ==
    /\ pc = "parsing" /\ inCData /\ ~inCData' /\ i = Top(srcOpen)

\* C16: the accumulator is empty outside a CDATA section and inside one it is
\* the concatenation, in order, of the chunks reported since the section's
\* CDataStart; CDataEnd sets innerText of the innermost open element to that
\* concatenation and empties the accumulator; an element whose last content
\* is a CDATA section holds that section's content only.
C16_CDataPerSection ==
    /\ []((pc = "parsing" /\ ~inCData) => cdata = "")
    /\ []((pc = "parsing" /\ inCData) => cdata = Concat(section))
    /\ [][\A i \in 1..Len(nodes) :
             CDataEndStepOn(i)
                => /\ nodes' = [nodes EXCEPT ![i] = Put(@, "innerText", Str(Concat(section)))]
                   /\ cdata' = ""
                   /\ jsonObj' = jsonObj
                   /\ elementsStack' = elementsStack]_vars
    /\ [](\A i \in 1..Len(nodes) :
             (content[i] # <<>> /\ content[i][Len(content[i])].kind = "CData")
                => InnerText(i) = Str(Concat(content[i][Len(content[i])].chunks)))

\* An element with two CDATA sections, the first of two chunks: it holds the
\* second section's content.
C16_Witness ==
    /\ pc = "done" /\ Len(nodes) = 1
    /\ content[1] = << [kind |-> "CData", chunks |-> <<"keep", "k">>],
                       [kind |-> "CData", chunks |-> <<>>] >>
    /\ InnerText(1) = Str("")

\* A CDATA section of two chunks has been read to its end.
C16_TwoChunks ==
    /\ pc = "parsing" /\ ~inCData /\ cdata = ""
    /\ \E i \in 1..Len(nodes) :
          /\ content[i] = << [kind |-> "CData", chunks |-> <<"k", "keep">>] >>
          /\ InnerText(i) = Str("kkeep")

\* C17: in the delivered tree a node has the key innerText exactly when a
\* Text or a CDataEnd was reported while its element was the innermost open
\* one; every node has name and attr, and a node without such content (empty,
\* self-closing, or with children only) has no innerText key.
C17_InnerTextIffContent ==
    (pc = "done" /\ callbackCalls = 1)
        => \A i \in 1..Len(delivered.nodes) :
              /\ ("innerText" \in DOMAIN delivered.nodes[i]) <=> (content[i] # <<>>)
              /\ {"name", "attr"} \subseteq DOMAIN delivered.nodes[i]
              /\ content[i] = <<>> =>
                    DOMAIN delivered.nodes[i] \subseteq {"name", "attr"} \cup Tags

\* A delivered tree with a parent that has a child only, a child with text,
\* and a child whose only content is an empty CDATA section.
C17_Witness ==
    /\ pc = "done" /\ callbackCalls = 1 /\ Len(delivered.nodes) = 3
    /\ content[1] = <<>> /\ ~Leaf(1)
    /\ "innerText" \notin DOMAIN delivered.nodes[1]
    /\ \E i, j \in 2..3 :
          /\ content[i] = << [kind |-> "CData", chunks |-> <<>>] >>
          /\ delivered.nodes[i]["innerText"] = Str("")
          /\ content[j] = <<>> /\ Leaf(j)
          /\ "innerText" \notin DOMAIN delivered.nodes[j]

\* Node child is what object parent holds under key, alone or in its sequence.
StoredUnder(parent, key, child) ==
    LET v == Get(parent, key)
    IN  \/ v = Ref(child)
        \/ IsArray(v) /\ \E n \in 1..Len(v.v) : v.v[n] = Ref(child)

\* C18: while a build that has not failed reads a document, and when it has
\* delivered, the write cursor holds exactly the open elements, outermost
\* first; its bottom entry is the node the root container holds, every other
\* entry is the node stored (alone or in the sequence) in the entry below it
\* under its tag name; once End was reported the cursor is empty.
C18_WriteCursor ==
    pc \in {"parsing", "done"}
        => /\ elementsStack = srcOpen
           /\ elementsStack # <<>>
                 => StoredUnder(jsonObj, doc[elementsStack[1]].tag, elementsStack[1])
           /\ \A k \in 2..Len(elementsStack) :
                 StoredUnder(nodes[elementsStack[k - 1]], doc[elementsStack[k]].tag,
                             elementsStack[k])
           /\ pc = "done" => elementsStack = <<>>

\* The innermost open element is the second of two children with the same
\* tag name: the cursor's top is the second entry of the parent's sequence.
C18_Witness ==
    /\ pc = "parsing" /\ Len(elementsStack) = 2 /\ elementsStack = srcOpen
    /\ LET v == Get(nodes[elementsStack[1]], doc[elementsStack[2]].tag)
       IN  /\ IsArray(v) /\ Len(v.v) = 2
           /\ v.v[1].t = "node"
           /\ v.v[2] = Ref(elementsStack[2])

\* The build delivered after three elements, nested to depth three, were
\* opened and closed.
C18_Delivered ==
    /\ pc = "done" /\ elementsStack = <<>> /\ Len(nodes) = 3
    /\ doc[2].parent = 1 /\ doc[3].parent = 2

\* C19: once the first element has been attached to the root container, no
\* handler finds the write cursor empty, also when a further top-level
\* element or a text follows the root element: no build fails with the
\* TypeError of a read of undefined.
C19_NoEmptyCursorRead ==
    Len(doc) >= 1 => thrown # "TypeError"

\* A handler fails only when the document has no open element: on a text
\* outside every element, or on a start tag that follows the root element.
C19_FailsOnlyOutsideRoot ==
    [][(pc = "parsing" /\ pc' = "threw") => (srcOpen = <<>> /\ elementsStack = <<>>)]_vars

\* A build whose document keeps to one root element and has no text outside
\* of it was delivered.
C19_SingleRootDelivered ==
    /\ pc = "done" /\ callbackCalls = 1 /\ thrown = ""
    /\ Len(doc) = 3 /\ doc[2].parent = 1 /\ doc[3].parent = 1

\* The model keeps one element of doc per node of the heap.
DocMatchesNodes == Len(doc) = Len(nodes) /\ Len(content) = Len(nodes)

====
